---------------------------- MODULE Spec2Model ----------------------------
(***************************************************************************)
(* Live voice-session orchestration of hello.ai: GeminiVoiceService.       *)
(*                                                                         *)
(* Two near-duplicate implementations exist in the repository:             *)
(*   "disk" : src/unnamed/part_005 (writes the audio to a file)            *)
(*   "mem"  : src/unnamed/part_004 (records a locator, writes nothing)     *)
(* The variable impl selects which one a behaviour runs.                   *)
(*                                                                         *)
(* JavaScript runs one callback at a time, so every action below is the    *)
(* code between two awaits.  A session is an object: the registry maps a   *)
(* call id to a reference, and a running processTranscription keeps its    *)
(* own reference in the local `session`.  heap holds the objects, indexed  *)
(* by identity, so that an object replaced in (or deleted from) the        *)
(* registry lives on for the cycle that still refers to it.                *)
(***************************************************************************)
EXTENDS Integers, Sequences, FiniteSets, TLC

\* ------------------------------------------------------------- bounds
\* startSession and processTranscription calls in one behaviour of Spec
MaxCalls == 3
\* the same in one behaviour of SpecOneCall, which drives a single call id
MaxCallsOneCall == 4
\* largest value of the millisecond clock
MaxClock == 1

\* 'ended' listeners the player may have waiting on the audio element
MaxListeners == 2

\* ------------------------------------------------------------- inputs
CallIds == {"call-1", "call-2"}
OneCall == {"call-1"}
UserIds == {"agent-x", "user-1"}
InstructionTexts == {"Be concise."}
TranscriptTexts == {"What's the weather?"}
Impls == {"disk", "mem"}

\* Map.get(callId) of an absent key; session references are 1..Len(heap)
NoSession == 0
\* the text the generation backend returns when it returns some
GeneratedText == "It's sunny."
\* generateGeminiResponse: text || '...'
FallbackText == "I apologize, but I could not generate a response."
\* audioUrl: '' of the text-only entry
EmptyUrl == <<>>
\* the null that getLatestAudioResponse returns (no url is of this shape)
Null == <<"null">>

GenOutcomes == {"text", "empty", "throws"}
IoOutcomes == {"ok", "fails"}

VARIABLES
    impl,           \* which implementation runs
    ttsConfigured,  \* GOOGLE_CLOUD_KEYFILE or GOOGLE_CLOUD_PROJECT_ID is set
    sessions,       \* GeminiVoiceService.sessions : callId -> session reference
    heap,           \* the GeminiVoiceSession objects ever created
    invocations,    \* the processTranscription activations, in call order
    now,            \* the clock (ms) at its latest read: Date.now(), new Date()
    files,          \* names of the files written under public/audio-responses
    player,         \* which GeminiAudioPlayer is mounted: "none", "refs" (part_002,
                    \* lastPlayedUrl and isPlaying in refs) or "state"
                    \* (gemini-audio-player.tsx, both in React state)
    audio,          \* the player's HTMLAudioElement: src and playback status
    lastPlayedUrl,  \* lastPlayedUrlRef.current, or the state lastPlayedUrl
    isPlaying,      \* isPlayingRef.current, or the state isPlaying
    rendered,       \* the lastPlayedUrl and isPlaying the running effect closed over
    polls,          \* the poll callbacks in flight
    onEnded,        \* the srcUrl of each onEnded listener waiting for 'ended'
    played,         \* the feed locators that were made the source and played
    replayed,       \* those that were made the source and played more than once
    twin            \* the other implementation, when both are run on the same
                    \* calls and backend outcomes: its state, and the call or
                    \* outcome that is being given to the two

\* the state of the service
serviceVars == <<impl, ttsConfigured, sessions, heap, invocations, now, files>>

\* the state outside the service that runs: the player in the browser, and
\* the other implementation
clientVars ==
    <<player, audio, lastPlayedUrl, isPlaying, rendered, polls, onEnded, played, replayed,
      twin>>

vars == <<impl, ttsConfigured, sessions, heap, invocations, now, files,
          player, audio, lastPlayedUrl, isPlaying, rendered, polls, onEnded,
          played, replayed, twin>>

\* ------------------------------------------------------------ helpers
\* the calls the bounds count: each created a session object or an activation
CallsMade == Len(heap) + Len(invocations)

\* a read of the clock: it never runs backwards, and may not have advanced
ClockReads == now..MaxClock

\* `${callId}-${Date.now()}.wav` under /audio-responses/
AudioUrl(callId, t) == <<"/audio-responses/", callId, t, ".wav">>

\* conversationHistory.push({ role, content }); inv names the activation
\* that pushed the entry (the entry's provenance, not a field of the code)
HistoryEntry(role, content, i) == [role |-> role, content |-> content, inv |-> i]

\* audioResponses.push({ text, audioUrl, timestamp })
ResponseEntry(text, url, t, i) ==
    [text |-> text, audioUrl |-> url, timestamp |-> t, inv |-> i]

NewSession(callId, agentUserId, instructions) ==
    [ call                |-> callId,
      agentUserId         |-> agentUserId,
      instructions        |-> instructions,
      conversationHistory |-> <<>>,
      isProcessing        |-> FALSE,
      audioResponses      |-> <<>> ]

\* an entry that leaves the flag as it is
AcquireSkipped(s) == s

\* session.isProcessing = true
Acquire(s) == [s EXCEPT !.isProcessing = TRUE]

\* a finally that leaves the flag set
ReleaseKeepsBusy(s) == s

\* a finally that clears the history along with the flag
ReleaseClearsHistory(s) ==
    [s EXCEPT !.isProcessing = FALSE, !.conversationHistory = <<>>]

\* finally { session.isProcessing = false }
Release(s) == [s EXCEPT !.isProcessing = FALSE]

\* a catch with no finally after it: the flag stays set
CatchWithoutFinally(s) == s

\* a catch that also takes the turn's user entry back
CatchRollsBack(s) ==
    Release([s EXCEPT !.conversationHistory = SubSeq(@, 1, Len(@) - 1)])

\* catch (error) { console.error(...) } finally { session.isProcessing = false }
\* of the outer try, entered when generateGeminiResponse threw
CatchGenerationError(s) == Release(s)

\* a push that puts the turn in at the front (unshift for push)
PushHistoryFront(s, role, content, i) ==
    [s EXCEPT !.conversationHistory = <<HistoryEntry(role, content, i)>> \o @]

\* session.conversationHistory.push({ role, content })
PushHistory(s, role, content, i) ==
    [s EXCEPT !.conversationHistory = Append(@, HistoryEntry(role, content, i))]

\* a record that keeps the latest entry only
PushResponseKeepsLatest(s, text, url, t, i) ==
    [s EXCEPT !.audioResponses = <<ResponseEntry(text, url, t, i)>>]

\* a record that puts the entry in at the front (unshift for push)
PushResponseFront(s, text, url, t, i) ==
    [s EXCEPT !.audioResponses = <<ResponseEntry(text, url, t, i)>> \o @]

\* a record that pushes the entry twice
PushResponseTwice(s, text, url, t, i) ==
    [s EXCEPT !.audioResponses =
        Append(Append(@, ResponseEntry(text, url, t, i)), ResponseEntry(text, url, t, i))]

\* session.audioResponses.push({ text, audioUrl, timestamp: new Date() })
PushResponse(s, text, url, t, i) ==
    [s EXCEPT !.audioResponses = Append(@, ResponseEntry(text, url, t, i))]

\* a generateGeminiResponse that returns the empty text as it is
GeminiTextNoFallback(outcome) == IF outcome = "empty" THEN "" ELSE GeneratedText

\* text || 'I apologize, ...'
GeminiText(outcome) == IF outcome = "empty" THEN FallbackText ELSE GeneratedText

\* ------------------------------------------------------------ reads
hasSession(callId) == sessions[callId] # NoSession

\* session?.audioResponses || []
getAudioResponses(callId) ==
    IF sessions[callId] = NoSession THEN <<>>
    ELSE heap[sessions[callId]].audioResponses

\* a latest that reads the first entry (index 0 for length - 1)
getLatestAudioResponseFirst(callId) ==
    IF sessions[callId] = NoSession \/ Len(heap[sessions[callId]].audioResponses) = 0
    THEN Null
    ELSE heap[sessions[callId]].audioResponses[1].audioUrl

\* the audioUrl of the last entry, or null: the return type is string | null
getLatestAudioResponse(callId) ==
    IF sessions[callId] = NoSession \/ Len(heap[sessions[callId]].audioResponses) = 0
    THEN Null
    ELSE LET r == heap[sessions[callId]].audioResponses IN r[Len(r)].audioUrl

\* latest.timestamp.toISOString(): the text form of the clock value t
ToISOString(t) == <<"1970-01-01T00:00:00.00", t, "Z">>

\* an endpoint that answers 404 while the call has no entry
GETNotFound(meetingId) ==
    IF meetingId = ""
    THEN [status |-> 400, body |-> [error |-> "Missing meetingId"]]
    ELSE LET audioResponses == getAudioResponses(meetingId)
         IN  IF Len(audioResponses) = 0
             THEN [status |-> 404, body |-> [error |-> "No audio response"]]
             ELSE LET latest == audioResponses[Len(audioResponses)]
                  IN  [status |-> 200,
                       body |-> [audioUrl  |-> latest.audioUrl,
                                 text      |-> latest.text,
                                 timestamp |-> ToISOString(latest.timestamp)]]

\* GET /api/gemini-audio/[meetingId]: the reply to a request for meetingId
\* ("" when the request names none).  Nothing in the try throws, so the
\* catch, which answers 500, is never entered.
GET(meetingId) ==
    IF meetingId = ""
    THEN [status |-> 400, body |-> [error |-> "Missing meetingId"]]
    ELSE LET audioResponses == getAudioResponses(meetingId)
         IN  IF Len(audioResponses) = 0
             THEN [status |-> 200, body |-> [audioUrl |-> Null, text |-> Null]]
             ELSE LET latest == audioResponses[Len(audioResponses)]
                  IN  [status |-> 200,
                       body |-> [audioUrl  |-> latest.audioUrl,
                                 text      |-> latest.text,
                                 timestamp |-> ToISOString(latest.timestamp)]]

\* ------------------------------------------------------------ Init
\* the page of the call the player belongs to: meetingId
MeetingId == "call-1"
\* new Audio(): no source, nothing playing
EmptySrc == [url |-> EmptyUrl]
\* `${data.audioUrl}?t=${Date.now()}`
SrcUrl(url, t) == [url |-> url, t |-> t]
\* the getter audio.src: the source resolved against the page's origin
AbsoluteUrl(src) ==
    IF src = EmptySrc THEN src
    ELSE [origin |-> "https://host", url |-> src.url, t |-> src.t]

\* the body { audioUrl: null, text: null }
NoData == [audioUrl |-> Null, text |-> Null]
\* the poll callbacks that may be in flight at once: that of one tick of
\* the interval and that of the tick before it
PollSlots == {"earlier", "later"}
\* a slot for a poll callback with none in it; failed tells whether the
\* callback that was in it last returned at a failed fetch, which is at
\* if (!response.ok) return or in the catch
NoPoll ==
    [pc |-> "idle", data |-> NoData,
     seen |-> [lastPlayedUrl |-> Null, isPlaying |-> FALSE], failed |-> FALSE]

\* the slot of a callback that returned
Returned(failed) == [NoPoll EXCEPT !.failed = failed]

\* useRef(null), useRef(false) / useState(null), useState(false), and the
\* first run of the effect: the element is made, the interval is set
ClientInit(mounted) ==
    /\ player = mounted
    /\ audio = [src |-> EmptySrc, status |-> "empty"]
    /\ lastPlayedUrl = Null
    /\ isPlaying = FALSE
    /\ rendered = [lastPlayedUrl |-> Null, isPlaying |-> FALSE]
    /\ polls = [p \in PollSlots |-> NoPoll]
    /\ onEnded = <<>>
    /\ played = {}
    /\ replayed = {}

ServiceInit ==
    /\ impl \in Impls
    /\ ttsConfigured \in BOOLEAN
    /\ sessions = [c \in CallIds |-> NoSession]
    /\ heap = <<>>
    /\ invocations = <<>>
    /\ now = 0
    /\ files = {}

\* the call or backend outcome given to the implementations: none
NoEvent == [kind |-> "none", callId |-> "none", who |-> "none", i |-> 0, outcome |-> "none"]

\* one implementation runs alone
NoTwin == [phase |-> "off", pending |-> NoEvent, before |-> <<>>, other |-> <<>>]

\* the service alone: no player is mounted
Init == ServiceInit /\ ClientInit("none") /\ twin = NoTwin

\* ------------------------------------------------------------ registry
\* a startSession that keeps the session already registered for the call
StartSessionKeepsPrior(callId, agentUserId, instructions) ==
    /\ heap' = Append(heap,
           IF sessions[callId] = NoSession
           THEN NewSession(callId, agentUserId, instructions)
           ELSE [heap[sessions[callId]] EXCEPT
                    !.agentUserId = agentUserId, !.instructions = instructions])
    /\ sessions' = [sessions EXCEPT ![callId] = Len(heap) + 1]
    /\ UNCHANGED clientVars
    /\ UNCHANGED <<impl, ttsConfigured, invocations, now, files>>

\* this.sessions.set(call.id, { ..., conversationHistory: [],
\* isProcessing: false, audioResponses: [] })
StartSession(callId, agentUserId, instructions) ==
    /\ heap' = Append(heap, NewSession(callId, agentUserId, instructions))
    /\ sessions' = [sessions EXCEPT ![callId] = Len(heap) + 1]
    /\ UNCHANGED clientVars
    /\ UNCHANGED <<impl, ttsConfigured, invocations, now, files>>

\* an endSession that empties the session and leaves it registered
EndSessionResets(callId) ==
    /\ heap' = IF sessions[callId] = NoSession THEN heap
               ELSE [heap EXCEPT ![sessions[callId]] =
                        [@ EXCEPT !.conversationHistory = <<>>, !.audioResponses = <<>>]]
    /\ UNCHANGED clientVars
    /\ UNCHANGED <<impl, ttsConfigured, sessions, invocations, now, files>>

\* an endSession that empties the registry (clear for delete)
EndSessionClearsAll(callId) ==
    /\ sessions' = [c \in CallIds |-> NoSession]
    /\ UNCHANGED clientVars
    /\ UNCHANGED <<impl, ttsConfigured, heap, invocations, now, files>>

\* this.sessions.delete(callId): no effect when the key is absent
EndSession(callId) ==
    /\ sessions' = [sessions EXCEPT ![callId] = NoSession]
    /\ UNCHANGED clientVars
    /\ UNCHANGED <<impl, ttsConfigured, heap, invocations, now, files>>

\* ------------------------------------------------------------ ingest
(***************************************************************************)
(* An activation of processTranscription.                                  *)
(*   path    : the branch taken at entry: "noSession" | "busy" (the first  *)
(*             return), "agent" (the second return), "accepted";           *)
(*             "TypeError" would be a property read of undefined           *)
(*   session : the local `session`, a reference into heap                  *)
(*   pc      : the await the activation is suspended at: "gen", "tts",     *)
(*             "mkdir", "write"; "done" once the promise is settled        *)
(*   ret     : how the promise settled: "void" (resolved), "threw"         *)
(*             (rejected), "pending"                                       *)
(*   gen, tts, store : the outcome each backend call had ("none" before)   *)
(*   geminiResponse, fileTime : the locals of the same names (fileTime is  *)
(*             the Date.now() inside audioFileName)                        *)
(***************************************************************************)
Activation(callId, text, speakerId, path, session) ==
    [ callId |-> callId, text |-> text, speakerId |-> speakerId,
      path |-> path, session |-> session,
      pc  |-> IF path = "accepted" THEN "gen" ELSE "done",
      ret |-> IF path = "accepted" THEN "pending"
              ELSE IF path = "TypeError" THEN "threw" ELSE "void",
      gen |-> "none", tts |-> "none", store |-> "none",
      geminiResponse |-> "none", fileTime |-> 0 ]

\* the guards with `|| session.isProcessing` left out
EntryPathNoBusyCheck(callId, speakerId) ==
    IF sessions[callId] = NoSession THEN "noSession"
    ELSE IF speakerId = heap[sessions[callId]].agentUserId THEN "agent"
    ELSE "accepted"

\* the guards with the self-echo return left out
EntryPathNoEchoCheck(callId, speakerId) ==
    IF sessions[callId] = NoSession THEN "noSession"
    ELSE IF heap[sessions[callId]].isProcessing THEN "busy"
    ELSE "accepted"

\* the guards with the self-echo comparison inverted (!== for ===)
EntryPathEchoInverted(callId, speakerId) ==
    IF sessions[callId] = NoSession THEN "noSession"
    ELSE IF heap[sessions[callId]].isProcessing THEN "busy"
    ELSE IF speakerId # heap[sessions[callId]].agentUserId THEN "agent"
    ELSE "accepted"

\* the guards with `!session ||` left out: session.isProcessing of undefined
EntryPathNoSessionCheck(callId, speakerId) ==
    IF sessions[callId] = NoSession THEN "TypeError"
    ELSE IF heap[sessions[callId]].isProcessing THEN "busy"
    ELSE IF speakerId = heap[sessions[callId]].agentUserId THEN "agent"
    ELSE "accepted"

\* const session = this.sessions.get(callId)
\* if (!session || session.isProcessing) return
\* if (speakerId === session.agentUserId) return
EntryPath(callId, speakerId) ==
    IF sessions[callId] = NoSession THEN "noSession"
    ELSE IF heap[sessions[callId]].isProcessing THEN "busy"
    ELSE IF speakerId = heap[sessions[callId]].agentUserId THEN "agent"
    ELSE "accepted"

\* the code from the entry of processTranscription to its first await:
\* the guards, isProcessing = true, the user turn, and the backend call
ProcessTranscription(callId, text, speakerId) ==
    /\ LET path == EntryPath(callId, speakerId)
           i    == Len(invocations) + 1
           ref  == sessions[callId]
       IN  /\ invocations' =
                 Append(invocations, Activation(callId, text, speakerId, path, ref))
           /\ heap' =
                 IF path = "accepted"
                 THEN [heap EXCEPT ![ref] = PushHistory(Acquire(@), "user", text, i)]
                 ELSE heap
    /\ UNCHANGED clientVars
    /\ UNCHANGED <<impl, ttsConfigured, sessions, now, files>>

\* a cycle that looks its session up again after each await
SessionLookedUpAgain(a) ==
    IF sessions[a.callId] # NoSession THEN sessions[a.callId] ELSE a.session

\* the session a suspended activation goes on with: its local `session`,
\* bound once at entry, whatever the registry holds by then
SessionOf(a) == a.session

\* the promise of an activation resolves: the end of the try, or
\* catch (error) { console.error(...) }, neither of which rethrows
Settled(a) == [a EXCEPT !.pc = "done", !.ret = "void"]

\* the generation backend settles: await this.generateGeminiResponse(...)
\* returns or throws; on a return the assistant turn is pushed and
\* textToSpeech is called
GenReturns(i, outcome) ==
    /\ i \in 1..Len(invocations)
    /\ invocations[i].pc = "gen"
    /\ LET a == invocations[i]
           text == GeminiText(outcome)
       IN  IF outcome = "throws"
           THEN /\ heap' = [heap EXCEPT ![SessionOf(a)] = CatchGenerationError(@)]
                /\ invocations' = [invocations EXCEPT
                       ![i] = Settled([a EXCEPT !.gen = outcome])]
           ELSE /\ heap' = [heap EXCEPT
                       ![SessionOf(a)] = PushHistory(@, "assistant", text, i)]
                /\ invocations' = [invocations EXCEPT
                       ![i].gen = outcome, ![i].geminiResponse = text, ![i].pc = "tts"]
    /\ UNCHANGED clientVars
    /\ UNCHANGED <<impl, ttsConfigured, sessions, now, files>>

\* what textToSpeech can do: return null when getTTSClient() is null,
\* else return the audio, throw 'Failed to generate audio from text' when
\* the reply has no audioContent, or rethrow what synthesizeSpeech threw
TtsOutcomes ==
    IF ttsConfigured THEN {"audio", "noAudio", "throws"} ELSE {"absent"}

\* Step 5 of part_005 when audioBuffer is null, and the whole of step 5 of
\* part_004: the entry that is pushed without an await in between
RecordNow(s, a, i, t) ==
    IF impl = "disk"
    THEN PushResponse(s, a.geminiResponse, EmptyUrl, t, i)
    ELSE PushResponse(s, a.geminiResponse, AudioUrl(a.callId, t), t, i)

\* the synthesis backend settles: await this.textToSpeech(geminiResponse)
TtsReturns(i, outcome, t) ==
    /\ i \in 1..Len(invocations)
    /\ invocations[i].pc = "tts"
    /\ LET a == invocations[i]
           b == [a EXCEPT !.tts = outcome]
       IN  CASE outcome \in {"noAudio", "throws"} ->
                  \* thrown inside the outer try: catch, then finally
                  /\ heap' = [heap EXCEPT ![SessionOf(a)] = Release(@)]
                  /\ invocations' = [invocations EXCEPT ![i] = Settled(b)]
                  /\ now' = now
             [] outcome = "absent" \/ impl = "mem" ->
                  /\ heap' = [heap EXCEPT ![SessionOf(a)] = Release(RecordNow(@, a, i, t))]
                  /\ invocations' = [invocations EXCEPT ![i] = Settled(b)]
                  /\ now' = t
             [] OTHER ->
                  \* part_005 with an audio buffer: await ensureAudioDir()
                  /\ heap' = heap
                  /\ invocations' = [invocations EXCEPT ![i] = [b EXCEPT !.pc = "mkdir"]]
                  /\ now' = now
    /\ UNCHANGED clientVars
    /\ UNCHANGED <<impl, ttsConfigured, sessions, files>>

\* await ensureAudioDir() settles; on success the file name is made from
\* Date.now() and writeFile is called
MkdirReturns(i, outcome, t) ==
    /\ i \in 1..Len(invocations)
    /\ invocations[i].pc = "mkdir"
    /\ LET a == invocations[i]
       IN  IF outcome = "ok"
           THEN /\ heap' = heap
                /\ invocations' = [invocations EXCEPT
                       ![i] = [a EXCEPT !.fileTime = t, !.pc = "write"]]
                /\ now' = t
           ELSE \* catch (saveError): nothing is recorded
                /\ heap' = [heap EXCEPT ![SessionOf(a)] = Release(@)]
                /\ invocations' = [invocations EXCEPT
                       ![i] = Settled([a EXCEPT !.store = outcome])]
                /\ now' = now
    /\ UNCHANGED clientVars
    /\ UNCHANGED <<impl, ttsConfigured, sessions, files>>

\* a writeFile whose failure is answered with a text-only entry
WriteFailureRecordsText(i, outcome, t) ==
    /\ i \in 1..Len(invocations)
    /\ invocations[i].pc = "write"
    /\ LET a == invocations[i]
           url == IF outcome = "ok" THEN AudioUrl(a.callId, a.fileTime) ELSE EmptyUrl
       IN  /\ files' = IF outcome = "ok" THEN files \cup {url} ELSE files
           /\ heap' = [heap EXCEPT ![SessionOf(a)] =
                  Release(PushResponse(@, a.geminiResponse, url, t, i))]
           /\ invocations' = [invocations EXCEPT ![i] = Settled([a EXCEPT !.store = outcome])]
           /\ now' = t
    /\ UNCHANGED clientVars
    /\ UNCHANGED <<impl, ttsConfigured, sessions>>

\* await writeFile(audioPath, audioBuffer) settles; on success the entry
\* is pushed with the file's url and new Date()
WriteReturns(i, outcome, t) ==
    /\ i \in 1..Len(invocations)
    /\ invocations[i].pc = "write"
    /\ LET a == invocations[i]
           url == AudioUrl(a.callId, a.fileTime)
           b == Settled([a EXCEPT !.store = outcome])
       IN  IF outcome = "ok"
           THEN /\ files' = files \cup {url}
                /\ heap' = [heap EXCEPT ![SessionOf(a)] =
                       Release(PushResponse(@, a.geminiResponse, url, t, i))]
                /\ invocations' = [invocations EXCEPT ![i] = b]
                /\ now' = t
           ELSE /\ files' = files
                /\ heap' = [heap EXCEPT ![SessionOf(a)] = Release(@)]
                /\ invocations' = [invocations EXCEPT ![i] = b]
                /\ now' = now
    /\ UNCHANGED clientVars
    /\ UNCHANGED <<impl, ttsConfigured, sessions>>

\* ------------------------------------------------------------ player
(***************************************************************************)
(* GeminiAudioPlayer: setInterval starts a poll callback every 1500 ms,    *)
(* whether or not the one before it has returned, so callbacks overlap.    *)
(* A callback is suspended at `await fetch(...)` (pc "fetch") and at       *)
(* `await response.json()` (pc "json"); the code after it runs in one      *)
(* piece.  In the "state" player the callback reads the lastPlayedUrl and  *)
(* isPlaying of the render its effect ran in (seen), in the "refs" player  *)
(* the refs as they are when it reads them.                                *)
(* audio.status: "empty" (no source yet), "starting" (play() was called,   *)
(* the 'playing' event is still to come), "playing", "ended", "paused".    *)
(***************************************************************************)
\* a test that takes the empty string for a locator
TruthyUnlessNull(url) == url # Null

\* if (data.audioUrl ...): null and '' are falsy
Truthy(url) == url # Null /\ url # EmptyUrl

\* the locators in the sequence of sources srcs
UrlsOf(srcs) == {srcs[k].url : k \in 1..Len(srcs)}

\* the locators that occur more than once in srcs
TwiceIn(srcs) ==
    {srcs[k].url : k \in {j \in 1..Len(srcs) :
                             \E l \in 1..Len(srcs) : l # j /\ srcs[l].url = srcs[j].url}}

\* audio.src = srcUrl; audio.load(); await audio.play(), for each source of
\* srcs in turn: the last one stays
SetSourcesAndPlay(srcs) ==
    /\ audio' = [src |-> srcs[Len(srcs)], status |-> "starting"]
    /\ played' = played \cup UrlsOf(srcs)
    /\ replayed' = replayed \cup (played \cap UrlsOf(srcs)) \cup TwiceIn(srcs)

\* setInterval fires: a poll callback starts and calls fetch
PollTick(p) ==
    /\ player # "none"
    /\ polls[p].pc = "idle"
    /\ polls' = [polls EXCEPT ![p] = [@ EXCEPT !.pc = "fetch", !.seen = rendered]]
    /\ UNCHANGED serviceVars
    /\ UNCHANGED twin
    /\ UNCHANGED <<player, audio, lastPlayedUrl, isPlaying, rendered, onEnded,
                   played, replayed>>

\* response.ok: a status in the range 200-299
Ok(response) == response.status \in 200..299

\* a poll whose failed fetch stops the audio and forgets the last locator
FetchSettlesOrUnmounts(p, outcome) ==
    /\ polls[p].pc = "fetch"
    /\ LET response == GET(MeetingId)
       IN  IF outcome = "reply" /\ Ok(response)
           THEN /\ polls' = [polls EXCEPT ![p].pc = "json", ![p].data = response.body]
                /\ UNCHANGED <<audio, lastPlayedUrl>>
           ELSE /\ polls' = [polls EXCEPT ![p] = Returned(TRUE)]
                /\ audio' = [src |-> EmptySrc, status |-> "paused"]
                /\ lastPlayedUrl' = Null
    /\ UNCHANGED serviceVars
    /\ UNCHANGED twin
    /\ UNCHANGED <<player, isPlaying, rendered, onEnded, played, replayed>>

\* await fetch(`/api/gemini-audio/${meetingId}`) settles: the endpoint
\* replies ("reply"), something on the way answers with an error status
\* ("badGateway": if (!response.ok) return), or fetch throws ("throws":
\* catch (error) { console.error(...) })
FetchSettles(p, outcome) ==
    /\ polls[p].pc = "fetch"
    /\ LET response == GET(MeetingId)
       IN  IF outcome = "reply" /\ Ok(response)
           THEN polls' = [polls EXCEPT ![p].pc = "json", ![p].data = response.body]
           ELSE polls' = [polls EXCEPT ![p] = Returned(TRUE)]
    /\ UNCHANGED serviceVars
    /\ UNCHANGED twin
    /\ UNCHANGED <<player, audio, lastPlayedUrl, isPlaying, rendered, onEnded,
                   played, replayed>>

FetchOutcomes == {"reply", "badGateway", "throws"}

\* a callback that compares with the locator of the source that is set
LastPlayedSeenBySrc(p) == audio.src.url

\* the lastPlayedUrl a callback compares with
LastPlayedSeenBy(p) ==
    IF player = "refs" THEN lastPlayedUrl ELSE polls[p].seen.lastPlayedUrl

\* the isPlaying a callback branches on
IsPlayingSeenBy(p) ==
    IF player = "refs" THEN isPlaying ELSE polls[p].seen.isPlaying

\* await response.json() settles and the callback runs to its end: a new
\* locator is noted as last played, and its source is set and played at
\* once, or by an 'ended' listener when the player is playing; t is the
\* Date.now() of the browser
ReplyHandled(p, t) ==
    /\ polls[p].pc = "json"
    /\ polls' = [polls EXCEPT ![p] = Returned(FALSE)]
    /\ LET data == polls[p].data
           srcUrl == SrcUrl(data.audioUrl, t)
       IN  IF Truthy(data.audioUrl) /\ data.audioUrl # LastPlayedSeenBy(p)
           THEN /\ lastPlayedUrl' = data.audioUrl
                /\ IF AbsoluteUrl(audio.src) # srcUrl
                   THEN IF IsPlayingSeenBy(p)
                        THEN /\ Len(onEnded) < MaxListeners
                             /\ onEnded' = Append(onEnded, srcUrl)
                             /\ UNCHANGED <<audio, played, replayed>>
                        ELSE /\ SetSourcesAndPlay(<<srcUrl>>)
                             /\ UNCHANGED onEnded
                   ELSE UNCHANGED <<audio, onEnded, played, replayed>>
           ELSE UNCHANGED <<lastPlayedUrl, audio, onEnded, played, replayed>>
    /\ UNCHANGED serviceVars
    /\ UNCHANGED twin
    /\ UNCHANGED <<player, isPlaying, rendered>>

\* the element fires 'playing': isPlayingRef.current = true / setIsPlaying(true)
PlayingEvent ==
    /\ audio.status = "starting"
    /\ audio' = [audio EXCEPT !.status = "playing"]
    /\ isPlaying' = TRUE
    /\ UNCHANGED serviceVars
    /\ UNCHANGED twin
    /\ UNCHANGED <<player, lastPlayedUrl, rendered, polls, onEnded, played, replayed>>

\* the element fires 'ended': isPlaying is set to false, then every waiting
\* onEnded listener, in the order they were added, removes itself, sets its
\* source and plays it
EndedEvent ==
    /\ audio.status = "playing"
    /\ isPlaying' = FALSE
    /\ IF onEnded = <<>>
       THEN /\ audio' = [audio EXCEPT !.status = "ended"]
            /\ UNCHANGED <<played, replayed>>
       ELSE SetSourcesAndPlay(onEnded)
    /\ onEnded' = <<>>
    /\ UNCHANGED serviceVars
    /\ UNCHANGED twin
    /\ UNCHANGED <<player, lastPlayedUrl, rendered, polls>>

\* gemini-audio-player.tsx: lastPlayedUrl or isPlaying differ from those of
\* the last render, so React renders again and re-runs the effect: the
\* clean-up clears the interval, pauses the element (whose 'pause' event
\* calls setIsPlaying(false)) and sets src to '', and the effect sets a new
\* interval whose callbacks see the new values
Rerender ==
    /\ player = "state"
    /\ rendered # [lastPlayedUrl |-> lastPlayedUrl, isPlaying |-> isPlaying]
    /\ rendered' = [lastPlayedUrl |-> lastPlayedUrl, isPlaying |-> isPlaying]
    /\ audio' = [src |-> EmptySrc,
                 status |-> IF audio.status \in {"starting", "playing"}
                            THEN "paused" ELSE audio.status]
    /\ isPlaying' = IF audio.status \in {"starting", "playing"} THEN FALSE ELSE isPlaying
    /\ UNCHANGED serviceVars
    /\ UNCHANGED twin
    /\ UNCHANGED <<player, lastPlayedUrl, polls, onEnded, played, replayed>>

\* ------------------------------------------------------------ behaviours
\* One step: the service is called for a call id of C (while fewer than
\* budget calls were made), or a pending backend or file call settles.
Step(C, budget) ==
    \/ \E c \in C, a \in UserIds, ins \in InstructionTexts :
           CallsMade < budget /\ StartSession(c, a, ins)
    \/ \E c \in C : EndSession(c)
    \/ \E c \in C, t \in TranscriptTexts, u \in UserIds :
           CallsMade < budget /\ ProcessTranscription(c, t, u)
    \/ \E i \in 1..Len(invocations), o \in GenOutcomes : GenReturns(i, o)
    \/ \E i \in 1..Len(invocations), o \in TtsOutcomes, t \in ClockReads :
           TtsReturns(i, o, t)
    \/ \E i \in 1..Len(invocations), o \in IoOutcomes, t \in ClockReads :
           MkdirReturns(i, o, t)
    \/ \E i \in 1..Len(invocations), o \in IoOutcomes, t \in ClockReads :
           WriteReturns(i, o, t)

\* every interleaving of at most MaxCalls calls on the call ids
Next == Step(CallIds, MaxCalls)

Spec == Init /\ [][Next]_vars

\* every interleaving of at most MaxCallsOneCall calls, all for one call id
NextOneCall == Step(OneCall, MaxCallsOneCall)

SpecOneCall == Init /\ [][NextOneCall]_vars

\* the pending call of activation i settles, whatever the outcome
Settles(i) ==
    \/ \E o \in GenOutcomes : GenReturns(i, o)
    \/ \E o \in TtsOutcomes, t \in ClockReads : TtsReturns(i, o, t)
    \/ \E o \in IoOutcomes, t \in ClockReads : MkdirReturns(i, o, t)
    \/ \E o \in IoOutcomes, t \in ClockReads : WriteReturns(i, o, t)

\* every interleaving of at most MaxCalls calls for one call id, in which
\* every backend and file call returns or throws in the end
NextFair == Step(OneCall, MaxCalls)

FairSpec ==
    Init /\ [][NextFair]_vars /\ \A i \in 1..MaxCalls : WF_vars(Settles(i))

\* every interleaving of the calls in which each call id is started at most
\* once and receives at most one fragment
NextTwoCalls ==
    \/ \E c \in CallIds, a \in UserIds, ins \in InstructionTexts :
           /\ \A s \in 1..Len(heap) : heap[s].call # c
           /\ StartSession(c, a, ins)
    \/ \E c \in CallIds : EndSession(c)
    \/ \E c \in CallIds, t \in TranscriptTexts, u \in UserIds :
           /\ \A i \in 1..Len(invocations) : invocations[i].callId # c
           /\ ProcessTranscription(c, t, u)
    \/ \E i \in 1..Len(invocations), o \in GenOutcomes : GenReturns(i, o)
    \/ \E i \in 1..Len(invocations), o \in TtsOutcomes, t \in ClockReads :
           TtsReturns(i, o, t)
    \/ \E i \in 1..Len(invocations), o \in IoOutcomes, t \in ClockReads :
           MkdirReturns(i, o, t)
    \/ \E i \in 1..Len(invocations), o \in IoOutcomes, t \in ClockReads :
           WriteReturns(i, o, t)

SpecTwoCalls == Init /\ [][NextTwoCalls]_vars

\* the Date.now() of the browser in the cache-busting `?t=`: one value, as
\* AbsoluteUrl makes the comparison with audio.src come out the same for any
BrowserClock == {0}

\* the player is mounted on the page of call MeetingId; the service is the
\* one of part_004 without TTS credentials, which records a locator per turn
PlayerInit(v) ==
    /\ ServiceInit /\ impl = "mem" /\ ~ttsConfigured
    /\ ClientInit(v)
    /\ twin = NoTwin

\* One step of the call with a player: the service is called for MeetingId
\* (while fewer than budget calls were made) or one of its backend calls
\* returns, or the player polls, handles a reply, or its audio element
\* fires an event.
PlayerStep(budget) ==
    \/ \E ins \in InstructionTexts :
           CallsMade < budget /\ StartSession(MeetingId, "agent-x", ins)
    \/ EndSession(MeetingId)
    \/ \E t \in TranscriptTexts :
           CallsMade < budget /\ ProcessTranscription(MeetingId, t, "user-1")
    \/ \E i \in 1..Len(invocations) : GenReturns(i, "text")
    \/ \E i \in 1..Len(invocations), o \in TtsOutcomes, t \in ClockReads :
           TtsReturns(i, o, t)
    \/ \E p \in PollSlots : PollTick(p)
    \/ \E p \in PollSlots, o \in FetchOutcomes : FetchSettles(p, o)
    \/ \E p \in PollSlots, t \in BrowserClock : ReplyHandled(p, t)
    \/ PlayingEvent
    \/ EndedEvent

\* the player of part_002, at most MaxCalls calls of the service
NextRefsPlayer == PlayerStep(MaxCalls)

SpecRefsPlayer == PlayerInit("refs") /\ [][NextRefsPlayer]_vars

\* the player of gemini-audio-player.tsx, which renders again when its
\* state changes; one call of the service fewer
NextStatePlayer == PlayerStep(MaxCalls - 1) \/ Rerender

SpecStatePlayer == PlayerInit("state") /\ [][NextStatePlayer]_vars

\* --------------------------------------------------- both implementations
(***************************************************************************)
(* The service of part_005 and the service of part_004 are run on the same *)
(* calls and the same backend outcomes.  Each call or outcome is chosen    *)
(* (TwinChoose), given to the implementation that runs (TwinApply), which  *)
(* then changes places with the other (TwinSwap), given to that one, and   *)
(* the two change places again.  An outcome of a backend or file call that *)
(* an implementation is not waiting for is not given to it.  The clock     *)
(* stands still: locators and timestamps are not compared.                 *)
(***************************************************************************)

\* the state of the implementation that runs
ServiceState ==
    [impl |-> impl, ttsConfigured |-> ttsConfigured, sessions |-> sessions,
     heap |-> heap, invocations |-> invocations, now |-> now, files |-> files]

\* a call of the service or the outcome of a backend or file call
Event(kind, callId, who, i, outcome) ==
    [kind |-> kind, callId |-> callId, who |-> who, i |-> i, outcome |-> outcome]

\* the calls, and the outcomes of the calls activation i can be waiting for
Events ==
    {Event("start", c, "agent-x", 0, "none") : c \in OneCall}
    \cup {Event("end", c, "none", 0, "none") : c \in OneCall}
    \cup {Event("ingest", c, u, 0, "none") : c \in OneCall, u \in UserIds}
    \cup {Event("gen", "none", "none", i, o) : i \in 1..MaxCalls, o \in GenOutcomes}
    \cup {Event("tts", "none", "none", i, o) : i \in 1..MaxCalls, o \in TtsOutcomes}
    \cup {Event(k, "none", "none", i, o) :
             k \in {"mkdir", "write"}, i \in 1..MaxCalls, o \in IoOutcomes}

\* the implementation that runs takes event e: a call always, an outcome
\* when activation e.i waits for it
Takes(e) ==
    CASE e.kind \in {"start", "ingest"} -> TRUE
      [] e.kind = "end" -> hasSession(e.callId)
      [] OTHER -> e.i \in 1..Len(invocations) /\ invocations[e.i].pc = e.kind

\* one of the implementations waits for the outcome e, or e is a call made
\* while fewer than MaxCalls were
Offered(e) ==
    CASE e.kind \in {"start", "ingest"} -> CallsMade < MaxCalls
      [] e.kind = "end" -> TRUE
      [] OTHER ->
           \/ Takes(e)
           \/ /\ e.i \in 1..Len(twin.other.invocations)
              /\ twin.other.invocations[e.i].pc = e.kind

\* the next call or outcome is chosen
TwinChoose ==
    /\ twin.phase = "ready"
    /\ \E e \in Events :
          /\ Offered(e)
          /\ twin' = [twin EXCEPT !.phase = "first", !.pending = e,
                                  !.before = ServiceState]
    /\ UNCHANGED serviceVars
    /\ UNCHANGED <<player, audio, lastPlayedUrl, isPlaying, rendered, polls,
                   onEnded, played, replayed>>

\* the implementation that runs is given the call or outcome, once
TwinApply ==
    /\ twin.phase \in {"first", "second"}
    /\ ServiceState = twin.before
    /\ LET e == twin.pending
       IN  \/ e.kind = "start"
              /\ \E ins \in InstructionTexts : StartSession(e.callId, e.who, ins)
           \/ e.kind = "end" /\ hasSession(e.callId) /\ EndSession(e.callId)
           \/ e.kind = "ingest"
              /\ \E t \in TranscriptTexts : ProcessTranscription(e.callId, t, e.who)
           \/ e.kind = "gen" /\ GenReturns(e.i, e.outcome)
           \/ e.kind = "tts" /\ TtsReturns(e.i, e.outcome, now)
           \/ e.kind = "mkdir" /\ MkdirReturns(e.i, e.outcome, now)
           \/ e.kind = "write" /\ WriteReturns(e.i, e.outcome, now)

\* the implementation that ran has taken the call or outcome, or does not
\* take it: the other implementation runs in its place
TwinSwap ==
    /\ twin.phase \in {"first", "second"}
    /\ ServiceState # twin.before \/ ~Takes(twin.pending)
    /\ impl' = twin.other.impl
    /\ ttsConfigured' = twin.other.ttsConfigured
    /\ sessions' = twin.other.sessions
    /\ heap' = twin.other.heap
    /\ invocations' = twin.other.invocations
    /\ now' = twin.other.now
    /\ files' = twin.other.files
    /\ twin' = [phase   |-> IF twin.phase = "first" THEN "second" ELSE "ready",
                pending |-> IF twin.phase = "first" THEN twin.pending ELSE NoEvent,
                before  |-> twin.other,
                other   |-> ServiceState]
    /\ UNCHANGED <<player, audio, lastPlayedUrl, isPlaying, rendered, polls,
                   onEnded, played, replayed>>

\* part_005 runs, part_004 is the other, both as constructed
TwinInit ==
    /\ ServiceInit /\ impl = "disk"
    /\ ClientInit("none")
    /\ twin = [phase |-> "ready", pending |-> NoEvent, before |-> <<>>,
               other |-> [ServiceState EXCEPT !.impl = "mem"]]

NextBothImpls == TwinChoose \/ TwinApply \/ TwinSwap

SpecBothImpls == TwinInit /\ [][NextBothImpls]_vars

\* either player on the page of a call whose service, part_004 or part_005,
\* runs without TTS credentials: part_005 then records text-only entries
AnyPlayerInit ==
    /\ ServiceInit /\ ~ttsConfigured
    /\ \E v \in {"refs", "state"} : ClientInit(v)
    /\ twin = NoTwin

SpecAnyPlayer == AnyPlayerInit /\ [][NextStatePlayer]_vars

\* the player of part_002 when every backend call of the service returns,
\* the interval keeps firing, a fetch replies again and again, every reply
\* is handled and every playback that was started begins and ends
FairSpecRefsPlayer ==
    /\ PlayerInit("refs") /\ [][NextRefsPlayer]_vars
    /\ WF_vars(\E i \in 1..Len(invocations) : GenReturns(i, "text"))
    /\ WF_vars(\E i \in 1..Len(invocations), o \in TtsOutcomes, t \in ClockReads :
                  TtsReturns(i, o, t))
    /\ \A p \in PollSlots :
          /\ WF_vars(PollTick(p))
          /\ SF_vars(FetchSettles(p, "reply"))
          /\ WF_vars(\E t \in BrowserClock : ReplyHandled(p, t))
    /\ WF_vars(PlayingEvent)
    /\ WF_vars(EndedEvent)

\* ============================================================ claims
Activations == 1..Len(invocations)
Objects == 1..Len(heap)

\* the activation is between its acceptance and its release
InFlight(i) == invocations[i].pc # "done"

\* a step that is a call of processTranscription, and the activation it made
IsIngest == Len(invocations') = Len(invocations) + 1
Ingested == invocations'[Len(invocations')]

\* the step left every session, the registry and the audio store as they were
NothingChanged ==
    /\ heap' = heap
    /\ sessions' = sessions
    /\ files' = files
    /\ SubSeq(invocations', 1, Len(invocations)) = invocations

\* activation i pushed an entry of that role into some history
PushedTurn(i, role) ==
    \E s \in Objects : \E k \in 1..Len(heap[s].conversationHistory) :
        /\ heap[s].conversationHistory[k].inv = i
        /\ heap[s].conversationHistory[k].role = role

\* activation i recorded a response entry somewhere
Recorded(i) ==
    \E s \in Objects : \E k \in 1..Len(heap[s].audioResponses) :
        heap[s].audioResponses[k].inv = i

\* C1 (as claimed): for every call id, at most one generate-synthesize-record
\* cycle is in flight at any time, also after startSession replaced a session
\* whose cycle is still in flight.
SingleFlightPerCallId ==
    \A c \in CallIds :
        Cardinality({i \in Activations :
                        invocations[i].callId = c /\ InFlight(i)}) <= 1

\* C2: a processTranscription that arrives while the call's session is busy
\* returns at once and changes nothing (history, responses, busy, registry),
\* and its fragment is never processed later: it starts no backend call and
\* no entry of any history or feed ever comes from it.
DropOnBusy ==
    /\ [][ (IsIngest /\ hasSession(Ingested.callId)
                     /\ heap[sessions[Ingested.callId]].isProcessing)
           => (NothingChanged /\ Ingested.pc = "done" /\ Ingested.ret = "void") ]_vars
    /\ [](\A i \in Activations :
             invocations[i].path = "busy"
             => /\ invocations[i].pc = "done"
                /\ invocations[i].gen = "none"
                /\ ~PushedTurn(i, "user") /\ ~PushedTurn(i, "assistant")
                /\ ~Recorded(i))

\* C2 witness: a fragment was dropped on a busy session, and the cycle that
\* was in flight then has since finished and recorded its response
DroppedWhileBusy ==
    \E i, j \in Activations :
        /\ i < j
        /\ invocations[j].path = "busy"
        /\ invocations[j].session = invocations[i].session
        /\ invocations[j].speakerId # heap[invocations[j].session].agentUserId
        /\ invocations[i].pc = "done" /\ Recorded(i)

\* C3: under FairSpec every accepted cycle ends, and the step that ends it
\* leaves isProcessing false on its session object, whichever way it ends;
\* an ingest by a non-agent speaker on a registered session none of whose
\* cycles is in flight is accepted.
ScopedRelease ==
    /\ \A i \in 1..MaxCalls :
          (i \in Activations /\ InFlight(i)) ~> (i \in Activations /\ ~InFlight(i))
    /\ [][ \A i \in Activations :
             (InFlight(i) /\ ~InFlight(i)')
             => ~heap'[invocations[i].session].isProcessing ]_vars
    /\ [][ (/\ IsIngest
            /\ hasSession(Ingested.callId)
            /\ Ingested.speakerId # heap[sessions[Ingested.callId]].agentUserId
            /\ \A i \in Activations :
                  invocations[i].session = sessions[Ingested.callId] => ~InFlight(i))
           => Ingested.path = "accepted" ]_vars

\* C3 witness: a cycle ended by a failure (generation, synthesis or storing),
\* and a later fragment was accepted on the same session object
AcceptedAfterFailedCycle ==
    \E i, j \in Activations :
        /\ i < j
        /\ invocations[i].session = invocations[j].session
        /\ invocations[i].path = "accepted" /\ ~InFlight(i) /\ ~Recorded(i)
        /\ invocations[j].path = "accepted"

\* C4 (as claimed): a turn whose synthesis failed (the backend threw, or
\* returned no audio payload) still records a ResponseEntry with the
\* generated text and an empty audioLocator.
SynthesisFailureRecordsTextOnly ==
    \A i \in Activations :
        (invocations[i].tts \in {"noAudio", "throws"} /\ ~InFlight(i))
        => \E k \in 1..Len(heap[invocations[i].session].audioResponses) :
              LET r == heap[invocations[i].session].audioResponses[k]
              IN  /\ r.inv = i
                  /\ r.text = invocations[i].geminiResponse
                  /\ r.audioUrl = EmptyUrl

\* C5: a turn whose generation threw is over with the promise resolved, has
\* recorded no ResponseEntry and pushed no assistant turn, and its user turn
\* is still in the conversationHistory of its session.
GenerationFailureContained ==
    \A i \in Activations :
        invocations[i].gen = "throws"
        => /\ ~InFlight(i)
           /\ invocations[i].ret = "void"
           /\ ~Recorded(i)
           /\ ~PushedTurn(i, "assistant")
           /\ \E k \in 1..Len(heap[invocations[i].session].conversationHistory) :
                 heap[invocations[i].session].conversationHistory[k] =
                    HistoryEntry("user", invocations[i].text, i)

\* C5 witness: generation threw in one turn, and the next turn of the same
\* session was answered and recorded after it
AnsweredAfterGenerationFailure ==
    \E i, j \in Activations :
        /\ i < j
        /\ invocations[i].session = invocations[j].session
        /\ invocations[i].gen = "throws"
        /\ Recorded(j)
        /\ Len(heap[invocations[i].session].conversationHistory) = 3

\* C6: a processTranscription whose speakerId is the agentParticipantId of
\* the call's session leaves history, responses and busy of every session
\* unchanged and starts no generation, whether the session is busy or idle.
SelfEchoChangesNothing ==
    [][ (IsIngest /\ hasSession(Ingested.callId)
                  /\ Ingested.speakerId = heap[sessions[Ingested.callId]].agentUserId)
        => (NothingChanged /\ Ingested.pc = "done" /\ Ingested.ret = "void") ]_vars

\* C6 witness: the agent's own speech arrived once on an idle session and
\* once on a busy one
SelfEchoSeen ==
    /\ \E i \in Activations : invocations[i].path = "agent"
    /\ \E i \in Activations :
          /\ invocations[i].path = "busy"
          /\ invocations[i].speakerId = heap[invocations[i].session].agentUserId

\* C7: no user entry of a session's conversationHistory comes from a fragment
\* whose speakerId is that session's agentParticipantId.
NoAgentUserTurn ==
    \A s \in Objects : \A k \in 1..Len(heap[s].conversationHistory) :
        LET e == heap[s].conversationHistory[k]
        IN  e.role = "user" => invocations[e.inv].speakerId # heap[s].agentUserId

\* C7 witness: the session of a call was replaced by one with another
\* agentParticipantId, and the replaced one holds a user turn spoken by the
\* participant who is the agent of the new one
AgentChangedAfterUserTurn ==
    \E s, r \in Objects :
        /\ s < r /\ heap[s].call = heap[r].call /\ sessions[heap[r].call] = r
        /\ heap[s].agentUserId # heap[r].agentUserId
        /\ \E k \in 1..Len(heap[s].conversationHistory) :
              LET e == heap[s].conversationHistory[k]
              IN  e.role = "user" /\ invocations[e.inv].speakerId = heap[r].agentUserId

\* C8: on a call id with no session nothing raises: processTranscription
\* resolves without changing any session, getAudioResponses is empty,
\* getLatestAudioResponse is null and hasSession is false.
NoSessionIsNoOp ==
    /\ [][ (IsIngest /\ ~hasSession(Ingested.callId))
           => (NothingChanged /\ Ingested.pc = "done" /\ Ingested.ret = "void") ]_vars
    /\ [](\A c \in CallIds :
             sessions[c] = NoSession
             => /\ getAudioResponses(c) = <<>>
                /\ getLatestAudioResponse(c) = Null
                /\ hasSession(c) = FALSE)

\* C8 witness: a fragment arrived for a call id without a session while the
\* other call's session held a turn and a response
IngestWithoutSession ==
    \E i \in Activations :
        /\ invocations[i].path = "noSession"
        /\ \E c \in CallIds \ {invocations[i].callId} :
              /\ hasSession(c)
              /\ Len(getAudioResponses(c)) > 0

\* C9: startSession(callId, agent, instructions) leaves the registry with a
\* session for callId that has an empty history, no responses, busy = false
\* and the given agent and instructions, whatever was registered before;
\* nothing of the prior session is readable afterwards.
StartSessionReplaces ==
    [][ \A c \in CallIds, a \in UserIds, ins \in InstructionTexts :
          StartSession(c, a, ins)
          => /\ hasSession(c)'
             /\ heap'[sessions'[c]].conversationHistory = <<>>
             /\ heap'[sessions'[c]].audioResponses = <<>>
             /\ heap'[sessions'[c]].isProcessing = FALSE
             /\ heap'[sessions'[c]].agentUserId = a
             /\ heap'[sessions'[c]].instructions = ins
             /\ getAudioResponses(c)' = <<>>
             /\ getLatestAudioResponse(c)' = Null ]_vars

\* C9 witness: a session that held turns and a response was replaced
ReplacedSessionWithHistory ==
    \E s, r \in Objects :
        /\ s < r /\ heap[s].call = heap[r].call /\ sessions[heap[r].call] = r
        /\ Len(heap[s].conversationHistory) = 2
        /\ Len(heap[s].audioResponses) = 1
        /\ heap[r].conversationHistory = <<>>

\* C10: hasSession(callId) is false at first, becomes true by startSession
\* and false by endSession and changes by nothing else; once ended, a
\* processTranscription for the id is a no-op and getAudioResponses is empty.
SessionExistsBetweenStartAndEnd ==
    /\ \A c \in CallIds : ~hasSession(c)
    /\ [][ \A c \in CallIds :
             /\ (\E a \in UserIds, ins \in InstructionTexts : StartSession(c, a, ins))
                => hasSession(c)'
             /\ EndSession(c)
                => (~hasSession(c)' /\ getAudioResponses(c)' = <<>>)
             /\ (hasSession(c)' # hasSession(c))
                => \/ \E a \in UserIds, ins \in InstructionTexts : StartSession(c, a, ins)
                   \/ EndSession(c) ]_vars
    /\ [][ (IsIngest /\ ~hasSession(Ingested.callId))
           => (Ingested.path = "noSession" /\ heap' = heap /\ sessions' = sessions) ]_vars

\* C10 witness: a session that held a turn was ended, and a later fragment
\* for the call found no session
IngestAfterEnd ==
    \E i \in Activations : \E s \in Objects :
        /\ invocations[i].path = "noSession"
        /\ heap[s].call = invocations[i].callId
        /\ Len(heap[s].conversationHistory) > 0
        /\ ~hasSession(invocations[i].callId)

\* the last element of a non-empty sequence
Last(seq) == seq[Len(seq)]

\* the entries of a feed that were recorded by cycles of the session object
\* the registry holds for the call now
OwnEntries(c) ==
    LET all == getAudioResponses(c)
        F[k \in 0..Len(all)] ==
            IF k = 0 THEN <<>>
            ELSE IF invocations[all[k].inv].session = sessions[c]
                 THEN Append(F[k - 1], all[k]) ELSE F[k - 1]
    IN  F[Len(all)]

\* C11: what a cycle produces after endSession(callId) ran while it was in
\* flight is never observable for callId, also when startSession(callId) ran
\* again before the cycle finished: getAudioResponses holds only entries
\* recorded by cycles of the session registered now, and while there is none
\* getLatestAudioResponse is null and the endpoint answers the null reply.
TeardownHidesCycle ==
    \A c \in CallIds :
        /\ getAudioResponses(c) = OwnEntries(c)
        /\ \A i \in Activations :
              (invocations[i].callId = c /\ invocations[i].session # sessions[c])
              => \A k \in 1..Len(getAudioResponses(c)) :
                    getAudioResponses(c)[k].inv # i
        /\ OwnEntries(c) = <<>>
           => /\ getLatestAudioResponse(c) = Null
              /\ GET(c) = [status |-> 200, body |-> [audioUrl |-> Null, text |-> Null]]

\* C11 witness: a cycle recorded its response on a session object that had
\* been replaced in the registry while the cycle was in flight (a cycle of
\* the new session had recorded at an earlier clock value), and the feed of
\* the call holds the new session's entry alone
RecordedAfterTeardown ==
    \E i, j \in Activations :
        LET a == invocations[i]
            b == invocations[j]
        IN  /\ a.path = "accepted" /\ b.path = "accepted"
            /\ a.callId = b.callId /\ a.session < b.session
            /\ sessions[a.callId] = b.session
            /\ ~InFlight(i) /\ ~InFlight(j)
            /\ Len(heap[a.session].audioResponses) = 1
            /\ Len(heap[b.session].audioResponses) = 1
            /\ Last(heap[b.session].audioResponses).timestamp
                  < Last(heap[a.session].audioResponses).timestamp
            /\ Len(getAudioResponses(a.callId)) = 1
            /\ Last(getAudioResponses(a.callId)).inv = j

\* seq is an initial part of longer
IsPrefix(seq, longer) ==
    Len(seq) <= Len(longer) /\ SubSeq(longer, 1, Len(seq)) = seq

\* C12: the responses of a session object are append-only: every step leaves
\* the audioResponses it had as a prefix of the audioResponses it has.
ResponsesAppendOnly ==
    [][ \A s \in Objects :
          IsPrefix(heap[s].audioResponses, heap'[s].audioResponses) ]_vars

\* C12 witness: a session object holds the entries of two turns, in the
\* order of the turns
TwoResponsesRecorded ==
    \E s \in Objects :
        /\ Len(heap[s].audioResponses) = 2
        /\ heap[s].audioResponses[1].inv < heap[s].audioResponses[2].inv

\* the turns of session object s: its accepted activations
TurnsOf(s) ==
    {i \in Activations :
        invocations[i].path = "accepted" /\ invocations[i].session = s}

\* a successful turn: its generation returned an assistant utterance
Successful(i) == invocations[i].gen \in {"text", "empty"}

\* no cycle of session object s is in flight
Idle(s) == \A i \in TurnsOf(s) : ~InFlight(i)

\* the (user fragment, assistant reply) pair of turn i
TurnPair(i) ==
    << HistoryEntry("user", invocations[i].text, i),
       HistoryEntry("assistant", invocations[i].geminiResponse, i) >>

\* the history the turns of s in Counted leave, in call order: a pair for a
\* successful turn, the lone user fragment for any other
HistoryOf(s, Counted) ==
    LET F[k \in 0..Len(invocations)] ==
            IF k = 0 THEN <<>>
            ELSE IF k \notin TurnsOf(s) \cap Counted THEN F[k - 1]
            ELSE IF Successful(k) THEN F[k - 1] \o TurnPair(k)
            ELSE Append(F[k - 1], HistoryEntry("user", invocations[k].text, k))
    IN  F[Len(invocations)]

\* C13 (as claimed): once no cycle of a session is in flight, its
\* conversationHistory has length 2N, N the number of its successful turns,
\* and is the N (user fragment, assistant reply) pairs in call order.
HistoryIsPairsOfSuccessfulTurns ==
    \A s \in Objects :
        Idle(s)
        => LET N == Cardinality({i \in TurnsOf(s) : Successful(i)})
           IN  /\ Len(heap[s].conversationHistory) = 2 * N
               /\ heap[s].conversationHistory =
                     HistoryOf(s, {i \in Activations : Successful(i)})

\* C13 (amended): once no cycle of a session is in flight, its
\* conversationHistory has length 2N + F, N the number of its successful
\* turns and F the number of its accepted turns whose generation threw, and
\* is, in call order, the pair of each successful turn and the lone user
\* fragment of each failed one.
HistoryIsPairsAndFailedFragments ==
    \A s \in Objects :
        Idle(s)
        => LET N == Cardinality({i \in TurnsOf(s) : Successful(i)})
               F == Cardinality({i \in TurnsOf(s) : invocations[i].gen = "throws"})
           IN  /\ Len(heap[s].conversationHistory) = 2 * N + F
               /\ heap[s].conversationHistory = HistoryOf(s, Activations)

\* C13 witness: an idle session had a turn whose generation threw and then a
\* successful one; its history holds three entries
FailedThenSuccessfulTurn ==
    \E s \in Objects : \E i, j \in TurnsOf(s) :
        /\ i < j /\ Idle(s)
        /\ invocations[i].gen = "throws" /\ Successful(j)
        /\ Len(heap[s].conversationHistory) = 3

\* the positions of the entries activation i recorded in session object s
EntriesOf(i, s) ==
    {k \in 1..Len(heap[s].audioResponses) : heap[s].audioResponses[k].inv = i}

\* C14 (as claimed): when the text-to-speech backend is unconfigured and
\* textToSpeech returned absent, the turn records exactly one ResponseEntry,
\* with the generated text and an empty audioLocator.
AbsentSynthesisRecordsTextOnly ==
    \A i \in Activations :
        (invocations[i].tts = "absent" /\ ~InFlight(i))
        => LET s == invocations[i].session
           IN  /\ Cardinality(EntriesOf(i, s)) = 1
               /\ \A k \in EntriesOf(i, s) :
                     /\ heap[s].audioResponses[k].text = invocations[i].geminiResponse
                     /\ heap[s].audioResponses[k].audioUrl = EmptyUrl

\* C15 (as claimed): a ResponseEntry has a non-empty audioLocator only if the
\* synthesizer returned audio for its turn and the audio store holds a file
\* under that locator; the entry of a turn whose synthesis was skipped or
\* unavailable has an empty locator.
LocatorOnlyForStoredAudio ==
    \A s \in Objects : \A k \in 1..Len(heap[s].audioResponses) :
        LET e == heap[s].audioResponses[k]
        IN  /\ e.audioUrl # EmptyUrl
               => (invocations[e.inv].tts = "audio" /\ e.audioUrl \in files)
            /\ invocations[e.inv].tts # "audio" => e.audioUrl = EmptyUrl

\* C16: a turn whose generation returned, whose synthesis returned audio and
\* whose audio was stored has exactly one ResponseEntry in the responses of
\* its session, with the generator's output as text and a non-empty
\* audioLocator; no accepted turn has more than one entry anywhere.
SuccessfulTurnRecordsOnce ==
    /\ \A i \in Activations :
          (invocations[i].tts = "audio" /\ invocations[i].store = "ok")
          => LET s == invocations[i].session
             IN  /\ Cardinality(EntriesOf(i, s)) = 1
                 /\ \A k \in EntriesOf(i, s) :
                       /\ heap[s].audioResponses[k].text = GeminiText(invocations[i].gen)
                       /\ heap[s].audioResponses[k].audioUrl # EmptyUrl
    /\ \A i \in Activations : \A s \in Objects :
          /\ Cardinality(EntriesOf(i, s)) <= 1
          /\ EntriesOf(i, s) # {} => invocations[i].session = s

\* C16 witness: two turns of one session were generated, synthesized and
\* stored, and the session holds one entry for each
TwoTurnsStored ==
    \E s \in Objects : \E i, j \in TurnsOf(s) :
        /\ i < j
        /\ invocations[i].store = "ok" /\ invocations[j].store = "ok"
        /\ Len(heap[s].audioResponses) = 2

\* the data of a ResponseEntry: { text, audioUrl, timestamp }
EntryData(e) == [text |-> e.text, audioUrl |-> e.audioUrl, timestamp |-> e.timestamp]

\* the data the value returned by getLatestAudioResponse carries: a url
LatestData(c) == [audioUrl |-> getLatestAudioResponse(c)]

\* the reply of the endpoint that carries entry e
ReplyOf(e) ==
    [status |-> 200,
     body |-> [audioUrl |-> e.audioUrl, text |-> e.text,
               timestamp |-> ToISOString(e.timestamp)]]

\* the reply of the endpoint that carries no entry
NullReply == [status |-> 200, body |-> [audioUrl |-> Null, text |-> Null]]

\* the last entry of the feed is the one of the latest turn recorded in it
LastIsMostRecent(c) ==
    \A k \in 1..Len(getAudioResponses(c)) :
        getAudioResponses(c)[k].inv <= Last(getAudioResponses(c)).inv

EmptyFeedIsNullReply ==
    \A c \in CallIds :
        /\ Len(getAudioResponses(c)) = 0 => GET(c) = NullReply
        /\ ~hasSession(c) => GET(c) = NullReply
        /\ GET(c).status = 200

\* C18 witness: one call was never started, the session of the other was
\* ended after it had recorded a response; the endpoint answers the null
\* reply for each
NullReplyAfterEnd ==
    \E c, d \in CallIds :
        /\ c # d
        /\ ~hasSession(c) /\ \A s \in Objects : heap[s].call # c
        /\ ~hasSession(d)
        /\ \E s \in Objects : heap[s].call = d /\ Len(heap[s].audioResponses) = 1
        /\ GET(c) = NullReply /\ GET(d) = NullReply

\* C19 (as claimed): within one session the non-empty audioLocators of the
\* responses are pairwise distinct, also when two turns read the same value
\* of the clock for their file names.
LocatorsDistinct ==
    \A s \in Objects : \A k, l \in 1..Len(heap[s].audioResponses) :
        (k < l /\ heap[s].audioResponses[k].audioUrl # EmptyUrl)
        => heap[s].audioResponses[k].audioUrl # heap[s].audioResponses[l].audioUrl

\* C20: within the responses of a session the timestamps never decrease in
\* sequence order (the clock never runs backwards).
TimestampsNonDecreasing ==
    \A s \in Objects : \A k, l \in 1..Len(heap[s].audioResponses) :
        k < l => heap[s].audioResponses[k].timestamp <= heap[s].audioResponses[l].timestamp

\* C20 witness: a session holds two entries, the second recorded at a later
\* clock value than the first
LaterEntryLaterTimestamp ==
    \E s \in Objects :
        /\ Len(heap[s].audioResponses) = 2
        /\ heap[s].audioResponses[1].timestamp < heap[s].audioResponses[2].timestamp
        /\ heap[s].audioResponses[1].inv < heap[s].audioResponses[2].inv

\* C21: within a session the user turns stand in conversationHistory in the
\* order in which their processTranscription calls took the busy flag (the
\* order of the accepted activations), each accepted call has its user turn
\* there, and the response entries stand in responses in that same order.
TurnsInAcquisitionOrder ==
    \A s \in Objects :
        LET h == heap[s].conversationHistory
            r == heap[s].audioResponses
        IN  /\ \A k, l \in 1..Len(h) : k < l => h[k].inv <= h[l].inv
            /\ \A k, l \in 1..Len(h) :
                  (k < l /\ h[k].role = "user" /\ h[l].role = "user")
                  => h[k].inv < h[l].inv
            /\ \A i \in TurnsOf(s) :
                  \E k \in 1..Len(h) : h[k] = HistoryEntry("user", invocations[i].text, i)
            /\ \A k, l \in 1..Len(r) : k < l => r[k].inv < r[l].inv

\* C21 witness: a session holds the user turns and the responses of two
\* cycles, the earlier accepted one first
TwoTurnsInOrder ==
    \E s \in Objects : \E i, j \in TurnsOf(s) :
        /\ i < j
        /\ Len(heap[s].conversationHistory) = 4
        /\ heap[s].conversationHistory[1].inv = i
        /\ heap[s].conversationHistory[3] = HistoryEntry("user", invocations[j].text, j)
        /\ Len(heap[s].audioResponses) = 2
        /\ heap[s].audioResponses[1].inv = i /\ heap[s].audioResponses[2].inv = j

\* the step is an operation on call id c: startSession, endSession, the
\* entry of processTranscription, or a later stage of one of its cycles
OperationOn(c) ==
    \/ \E a \in UserIds, ins \in InstructionTexts : StartSession(c, a, ins)
    \/ EndSession(c)
    \/ \E t \in TranscriptTexts, u \in UserIds : ProcessTranscription(c, t, u)
    \/ \E i \in Activations : invocations[i].callId = c /\ Settles(i)

\* C22: an operation on call id A leaves the registry entry and every
\* session object (history, responses, busy flag) of any other call id B as
\* they were; an ingest is dropped as busy only when a cycle of its own call
\* id is in flight on its session, so a busy A never makes B drop.
SessionsIndependent ==
    /\ [][ \A c \in CallIds :
             OperationOn(c)
             => \A b \in CallIds \ {c} :
                   /\ sessions'[b] = sessions[b]
                   /\ \A s \in Objects : heap[s].call = b => heap'[s] = heap[s] ]_vars
    /\ [][ (IsIngest /\ Ingested.path = "busy")
           => \E i \in Activations :
                 /\ invocations[i].callId = Ingested.callId
                 /\ invocations[i].session = Ingested.session
                 /\ InFlight(i) ]_vars
    /\ [][ (/\ IsIngest
            /\ hasSession(Ingested.callId)
            /\ Ingested.speakerId # heap[sessions[Ingested.callId]].agentUserId
            /\ \A i \in Activations :
                  invocations[i].callId = Ingested.callId => ~InFlight(i))
           => Ingested.path = "accepted" ]_vars

\* C22 witness: while a cycle of one call was in flight a fragment of the
\* other call was accepted, and its cycle recorded its response at an
\* earlier clock value than the first
AcceptedWhileOtherCallBusy ==
    \E i, j \in Activations :
        /\ i < j
        /\ invocations[i].callId # invocations[j].callId
        /\ invocations[i].path = "accepted" /\ invocations[j].path = "accepted"
        /\ Cardinality(EntriesOf(i, invocations[i].session)) = 1
        /\ Cardinality(EntriesOf(j, invocations[j].session)) = 1
        /\ Last(heap[invocations[j].session].audioResponses).timestamp
              < Last(heap[invocations[i].session].audioResponses).timestamp

\* C23: while the generation call or the synthesis call of a cycle is
\* pending (and likewise either file call), isProcessing of the cycle's
\* session object is true.
SuspendedInsideBusy ==
    \A i \in Activations :
        invocations[i].pc \in {"gen", "tts", "mkdir", "write"}
        => heap[invocations[i].session].isProcessing

\* C23 witness: a session whose first cycle is over is busy again with the
\* synthesis call of its second cycle pending
SecondCycleAwaitsSynthesis ==
    \E s \in Objects : \E i, j \in TurnsOf(s) :
        /\ i < j /\ ~InFlight(i)
        /\ invocations[j].pc = "tts"
        /\ heap[s].isProcessing

\* the synthesis of turn i let step 5 push an entry: textToSpeech returned
\* null, or audio that part_004 records at once and part_005 after storing
ReachedRecord(i) ==
    \/ invocations[i].tts = "absent" /\ ~InFlight(i)
    \/ invocations[i].tts = "audio" /\ impl = "mem" /\ ~InFlight(i)
    \/ invocations[i].store = "ok"

\* C24: a turn whose generation returned an empty result goes on with the
\* fallback string: it is the assistant turn of the history, the text given
\* to textToSpeech, and the text of the entry the turn records.
EmptyGenerationUsesFallback ==
    \A i \in Activations :
        invocations[i].gen = "empty"
        => LET s == invocations[i].session
           IN  /\ invocations[i].path = "accepted"
               /\ invocations[i].geminiResponse = FallbackText
               /\ \E k \in 1..Len(heap[s].conversationHistory) :
                     heap[s].conversationHistory[k] =
                        HistoryEntry("assistant", FallbackText, i)
               /\ \A k \in EntriesOf(i, s) :
                     heap[s].audioResponses[k].text = FallbackText
               /\ ReachedRecord(i) => Cardinality(EntriesOf(i, s)) = 1

\* C24 witness: a turn whose generation returned an empty result is over
\* and its entry carries the fallback string
FallbackRecorded ==
    \E i \in Activations :
        /\ invocations[i].gen = "empty" /\ ~InFlight(i)
        /\ \E k \in EntriesOf(i, invocations[i].session) :
              heap[invocations[i].session].audioResponses[k].text = FallbackText

\* the stages of a cycle in the order of the code, as (from, to) of pc:
\* a stage is left for the next one or, on a failure, for the end
StageOrder ==
    { <<"gen", "tts">>, <<"tts", "mkdir">>, <<"mkdir", "write">>,
      <<"gen", "done">>, <<"tts", "done">>, <<"mkdir", "done">>, <<"write", "done">> }

\* C30: an accepted cycle runs its steps in this order, skipping none on the
\* success path: busy is set and the user turn appended before generation is
\* called (on a history that ends with that turn), the assistant turn is
\* appended before synthesis is called with the generated text, and the
\* ResponseEntry is appended in the step that ends the cycle with busy false.
CycleStepsInOrder ==
    /\ [](\A i \in Activations :
            invocations[i].path = "accepted"
            => LET a == invocations[i]
                   s == a.session
                   h == heap[s].conversationHistory
                   user == HistoryEntry("user", a.text, i)
                   assistant == HistoryEntry("assistant", a.geminiResponse, i)
               IN  /\ a.pc = "gen"
                      => /\ heap[s].isProcessing
                         /\ Len(h) >= 1 /\ h[Len(h)] = user
                         /\ EntriesOf(i, s) = {}
                   /\ a.pc \in {"tts", "mkdir", "write"}
                      => /\ heap[s].isProcessing
                         /\ a.geminiResponse = GeminiText(a.gen)
                         /\ Len(h) >= 2 /\ h[Len(h) - 1] = user /\ h[Len(h)] = assistant
                         /\ EntriesOf(i, s) = {}
                   /\ (a.pc = "done" /\ ReachedRecord(i))
                      => /\ \E k \in 1..(Len(h) - 1) : h[k] = user /\ h[k + 1] = assistant
                         /\ Cardinality(EntriesOf(i, s)) = 1
                         /\ \A k \in EntriesOf(i, s) :
                               heap[s].audioResponses[k].text = a.geminiResponse)
    /\ [][ \A i \in Activations :
             invocations'[i].pc # invocations[i].pc
             => <<invocations[i].pc, invocations'[i].pc>> \in StageOrder ]_vars
    /\ [][ \A i \in Activations :
             (InFlight(i) /\ ~InFlight(i)' /\ ReachedRecord(i)')
             => /\ Last(heap'[invocations[i].session].audioResponses).inv = i
                /\ ~heap'[invocations[i].session].isProcessing ]_vars

\* C30 witness: a cycle went through every stage, the storing of the audio
\* included, and left its session idle with the two turns and the entry
FullCycleDone ==
    \E i \in Activations :
        LET s == invocations[i].session
        IN  /\ invocations[i].store = "ok"
            /\ heap[s].conversationHistory = TurnPair(i)
            /\ Cardinality(EntriesOf(i, s)) = 1
            /\ ~heap[s].isProcessing

\* C25 (as claimed): the player makes no feed locator the source of the
\* audio element and plays it more than once, whatever the polls return and
\* however slow poll callbacks overlap.
NeverPlaysLocatorTwice == replayed = {}

\* C26 (as claimed): while the audio element is playing a locator, nothing
\* but the end of that playback changes its source or pauses or restarts
\* it; an entry observed meanwhile is applied at the 'ended' event only.
NoInterruptionWhilePlaying ==
    [][ audio.status = "playing" => (audio' = audio \/ EndedEvent) ]_vars

\* the step is the end of the poll callback in slot p, after its reply
HandlesReply(p) == polls[p].pc = "json" /\ polls'[p].pc = "idle"

\* C27: in the player of part_002, a reply handled while the player is idle
\* that carries a non-empty locator other than the last one played makes
\* that locator the source, starts its playback (the 'playing' event then
\* sets isPlaying) and records it as last played; a reply whose locator is
\* the last one played changes nothing of the player.
IdleStartsNewLocator ==
    /\ [][ \A p \in PollSlots :
             HandlesReply(p)
             => LET url == polls[p].data.audioUrl
                IN  /\ (~isPlaying /\ Truthy(url) /\ url # lastPlayedUrl)
                       => /\ audio' = [src |-> SrcUrl(url, audio'.src.t), status |-> "starting"]
                          /\ lastPlayedUrl' = url
                          /\ url \in played'
                          /\ onEnded' = onEnded
                    /\ url = lastPlayedUrl
                       => UNCHANGED <<audio, lastPlayedUrl, isPlaying, onEnded, played, replayed>> ]_vars
    /\ [][ (audio.status = "starting" /\ audio'.status = "playing")
           => (isPlaying' /\ audio'.src = audio.src) ]_vars
    /\ [](isPlaying <=> audio.status = "playing")

\* C27 witness: the player plays the second locator of the feed, which it
\* started while idle, and a reply that carries the same locator is waiting
SecondLocatorPlaying ==
    /\ audio.status = "playing" /\ isPlaying
    /\ audio.src.url = lastPlayedUrl
    /\ Cardinality(played) = 2 /\ replayed = {} /\ onEnded = <<>>
    /\ \E p \in PollSlots : polls[p].pc = "json" /\ polls[p].data.audioUrl = lastPlayedUrl


\* the locator of the entry the feed of the meeting ends with, Null without
LatestLocator == GET(MeetingId).body.audioUrl

\* the locators the service can record for the meeting
Locators == {AudioUrl(MeetingId, t) : t \in 0..MaxClock}

\* C28 (as claimed): every entry recorded with a non-empty locator while the
\* poller is attached is eventually played, also when two or more entries
\* are recorded between two polls, given that fetches eventually succeed
\* and playbacks end.
EveryRecordedLocatorPlayed ==
    \A u \in Locators :
        (/\ player # "none"
         /\ \E k \in 1..Len(getAudioResponses(MeetingId)) :
                getAudioResponses(MeetingId)[k].audioUrl = u)
        ~> (u \in played)

\* the step is the end of the poll callback in slot p at a failed fetch
FetchFails(p) == polls[p].pc = "fetch" /\ polls'[p].pc = "idle"

\* C29: a fetch that throws or answers with a non-OK status changes neither
\* the last played locator nor the playback state, and leaves the interval
\* running with the slot free for the next poll; the locator the feed ends
\* with is later delivered all the same.
FailedFetchChangesNothing ==
    /\ [][ \A p \in PollSlots :
             FetchFails(p)
             => /\ UNCHANGED <<player, audio, lastPlayedUrl, isPlaying, rendered,
                               onEnded, played, replayed>>
                /\ polls'[p].failed
                /\ polls'[p].pc = "idle" /\ player' # "none" ]_vars
    /\ \A u \in Locators :
          (LatestLocator = u) ~> (lastPlayedUrl = u \/ LatestLocator # u)

\* C29 witness: the poll before this one in the slot failed, and this one
\* has fetched a locator that was not played yet
NewLocatorAfterFailedFetch ==
    \E p \in PollSlots :
        /\ polls[p].failed
        /\ polls[p].pc = "json"
        /\ Truthy(polls[p].data.audioUrl)
        /\ polls[p].data.audioUrl \notin played
        /\ lastPlayedUrl # Null


\* the role entry k of a history should have when roles alternate from user
AlternatingRole(k) == IF k % 2 = 1 THEN "user" ELSE "assistant"

\* C31 (as claimed): whenever no cycle of a session is in flight, its
\* conversationHistory alternates user, assistant, user, assistant, ...
\* starting with user, after any accepted, dropped and failed turns.
HistoryAlternates ==
    \A s \in Objects :
        Idle(s)
        => \A k \in 1..Len(heap[s].conversationHistory) :
              heap[s].conversationHistory[k].role = AlternatingRole(k)

\* C31 (amended): whenever no cycle of a session is in flight, its
\* conversationHistory starts with a user turn, every assistant turn comes
\* right after the user turn of the same cycle, so no two assistant turns
\* are adjacent, and two user turns are adjacent only where the first is
\* the fragment of a turn whose generation threw; with no such turn the
\* roles alternate strictly.
HistoryAlternatesButForFailedTurns ==
    \A s \in Objects :
        Idle(s)
        => LET h == heap[s].conversationHistory
           IN  /\ h # <<>> => h[1].role = "user"
               /\ \A k \in 1..Len(h) :
                     h[k].role = "assistant"
                     => k > 1 /\ h[k - 1].role = "user" /\ h[k - 1].inv = h[k].inv
               /\ \A k \in 1..(Len(h) - 1) :
                     (h[k].role = "user" /\ h[k + 1].role = "user")
                     => invocations[h[k].inv].gen = "throws"
               /\ (\A i \in TurnsOf(s) : Successful(i))
                  => \A k \in 1..Len(h) : h[k].role = AlternatingRole(k)

\* C31 witness: an idle session whose first turn failed at generation and
\* whose second was answered: its history reads user, user, assistant
UserTurnsAdjacent ==
    \E s \in Objects :
        /\ Idle(s)
        /\ Len(heap[s].conversationHistory) = 3
        /\ heap[s].conversationHistory[1].role = "user"
        /\ heap[s].conversationHistory[2].role = "user"
        /\ heap[s].conversationHistory[3].role = "assistant"
        /\ invocations[heap[s].conversationHistory[1].inv].gen = "throws"


\* the accepted cycles of session object s that have not reached finally
CyclesInFlight(s) == {i \in TurnsOf(s) : InFlight(i)}

\* C32: in every reachable state and for every session object, registered
\* or not, isProcessing is true exactly when one cycle accepted on that
\* object has not reached its finally; never more than one such cycle is in
\* flight on one object.
BusyIffOneCycleInFlight ==
    \A s \in Objects :
        /\ Cardinality(CyclesInFlight(s)) <= 1
        /\ heap[s].isProcessing <=> Cardinality(CyclesInFlight(s)) = 1

\* C32 witness: a session object that finished one cycle, its flag cleared
\* in between, is busy with its second
BusyWithSecondCycle ==
    \E s \in Objects : \E i, j \in TurnsOf(s) :
        /\ i < j
        /\ ~InFlight(i) /\ InFlight(j)
        /\ heap[s].isProcessing


\* activation i is a cycle of a session object that is no longer (or was
\* never again) the one registered for its call id
Stale(i) ==
    /\ invocations[i].path = "accepted"
    /\ sessions[invocations[i].callId] # invocations[i].session

\* C33: a step of a cycle that was accepted on an earlier session object of
\* a call id changes no other session object, so nothing of the object now
\* registered for the call id: no entry of its conversationHistory or
\* audioResponses comes from that cycle, and its isProcessing is not
\* cleared by that cycle's finally.
StaleCycleLeavesNewSession ==
    /\ [][ \A i \in Activations :
             (Stale(i) /\ invocations'[i] # invocations[i])
             => \A s \in Objects :
                   s # invocations[i].session => heap'[s] = heap[s] ]_vars
    /\ [](\A s \in Objects :
             /\ \A k \in 1..Len(heap[s].conversationHistory) :
                   invocations[heap[s].conversationHistory[k].inv].session = s
             /\ \A k \in 1..Len(heap[s].audioResponses) :
                   invocations[heap[s].audioResponses[k].inv].session = s)

\* C33 witness: a cycle of a replaced session object has ended and recorded
\* its response there while the object registered for the call id is busy
\* with a cycle of its own
StaleCycleEndedBesideNewCycle ==
    \E i, j \in Activations :
        /\ Stale(i) /\ ~InFlight(i) /\ Recorded(i)
        /\ invocations[j].callId = invocations[i].callId
        /\ invocations[j].path = "accepted"
        /\ invocations[j].session = sessions[invocations[j].callId]
        /\ InFlight(j)
        /\ heap[invocations[j].session].isProcessing
        /\ heap[invocations[j].session].audioResponses = <<>>


\* the positions of the assistant turns in the history of session object s
AssistantTurns(s) ==
    {k \in 1..Len(heap[s].conversationHistory) :
        heap[s].conversationHistory[k].role = "assistant"}

\* the position in the history of s of the assistant turn that the cycle of
\* response entry e pushed, 0 when there is none
TurnOfEntry(s, e) ==
    LET at == {k \in AssistantTurns(s) : heap[s].conversationHistory[k].inv = e.inv}
    IN  IF at = {} THEN 0 ELSE CHOOSE k \in at : TRUE

\* C34: in every reachable state of a session, each entry of audioResponses
\* belongs to an assistant turn of conversationHistory with the same text,
\* different entries to different turns, in the same order; so the texts of
\* the entries are a subsequence of the contents of the assistant turns and
\* there are no more entries than assistant turns.
ResponsesFollowAssistantTurns ==
    \A s \in Objects :
        LET h == heap[s].conversationHistory
            r == heap[s].audioResponses
        IN  /\ Len(r) <= Cardinality(AssistantTurns(s))
            /\ \A k \in 1..Len(r) :
                  /\ TurnOfEntry(s, r[k]) # 0
                  /\ h[TurnOfEntry(s, r[k])].content = r[k].text
            /\ \A k, l \in 1..Len(r) :
                  k < l => TurnOfEntry(s, r[k]) < TurnOfEntry(s, r[l])

\* C34 witness: a session with two assistant turns and one entry, that of
\* the second turn: the first turn recorded nothing
EntryOfSecondTurnOnly ==
    \E s \in Objects :
        /\ Cardinality(AssistantTurns(s)) = 2
        /\ Len(heap[s].audioResponses) = 1
        /\ TurnOfEntry(s, heap[s].audioResponses[1]) = 4


\* the step ends the cycle of activation i at a failure of storing: its
\* ensureAudioDir or its writeFile threw
StoringFails(i) ==
    /\ invocations[i].pc \in {"mkdir", "write"}
    /\ invocations'[i].pc = "done"
    /\ invocations'[i].store = "fails"

\* C35: in part_005, when creating the directory or writing the file fails,
\* the step that handles it appends no ResponseEntry and leaves the history
\* as it is, with the user turn and the assistant turn of the cycle in it,
\* returns normally to the caller and clears isProcessing; the turn has no
\* entry afterwards either.
StoringFailureContained ==
    /\ [][ \A i \in Activations :
             StoringFails(i)
             => LET s == invocations[i].session
                IN  /\ impl = "disk"
                    /\ heap'[s].audioResponses = heap[s].audioResponses
                    /\ heap'[s].conversationHistory = heap[s].conversationHistory
                    /\ PushedTurn(i, "user")' /\ PushedTurn(i, "assistant")'
                    /\ invocations'[i].ret = "void"
                    /\ heap[s].isProcessing /\ ~heap'[s].isProcessing
                    /\ \A o \in Objects : o # s => heap'[o] = heap[o]
                    /\ UNCHANGED <<sessions, files>> ]_vars
    /\ [](\A i \in Activations :
             invocations[i].store = "fails"
             => ~Recorded(i) /\ PushedTurn(i, "user") /\ PushedTurn(i, "assistant"))

\* C35 witness: the audio of two turns of a session was synthesized and
\* could not be stored; both cycles have ended, the session is idle, with
\* four turns in its history and no entry
TwoStoringFailures ==
    \E i, j \in Activations :
        /\ i # j
        /\ invocations[i].session = invocations[j].session
        /\ invocations[i].pc = "done" /\ invocations[j].pc = "done"
        /\ invocations[i].store = "fails" /\ invocations[j].store = "fails"
        /\ invocations[i].tts = "audio" /\ invocations[j].tts = "audio"
        /\ LET s == invocations[i].session
           IN  /\ ~heap[s].isProcessing
               /\ Len(heap[s].conversationHistory) = 4
               /\ heap[s].audioResponses = <<>>


\* what the claim compares of an implementation in state st: which session
\* object each call id has, and of each object the busy flag, the history
\* and, entry by entry, the turn and the text of its responses
Observed(st) ==
    [sessions |-> st.sessions,
     heap |-> [s \in 1..Len(st.heap) |->
                 [isProcessing |-> st.heap[s].isProcessing,
                  conversationHistory |-> st.heap[s].conversationHistory,
                  responses |-> [k \in 1..Len(st.heap[s].audioResponses) |->
                                   [inv |-> st.heap[s].audioResponses[k].inv,
                                    text |-> st.heap[s].audioResponses[k].text]]]]]

\* no cycle of the implementation in state st is in flight
Quiet(st) == \A i \in 1..Len(st.invocations) : st.invocations[i].pc = "done"

\* C36 (as claimed): given the same calls and the same backend outcomes,
\* whenever both implementations have taken them and neither has a cycle in
\* flight, they show the same registry, busy flags and histories and have
\* recorded entries for the same turns with the same texts.
ImplementationsEquivalent ==
    (twin.phase = "ready" /\ Quiet(ServiceState) /\ Quiet(twin.other))
    => Observed(ServiceState) = Observed(twin.other)


\* C37 (as claimed): the 'ended' event of a playback during which new
\* entries were observed starts one playback: at most one swap is pending,
\* so the source is set once and play() is called once, for the locator
\* observed last.
OnePendingSwap ==
    [][ (EndedEvent /\ onEnded # <<>>)
        => /\ Len(onEnded) = 1
           /\ audio' = [src |-> onEnded[1], status |-> "starting"]
           /\ audio'.src.url = lastPlayedUrl ]_vars


\* C38: a reply whose audioUrl is null (no entry, no session) or empty (a
\* text-only entry) leaves the player as it was when the callback that
\* handles it returns: last played locator, source and playback state of
\* the element, waiting onEnded listeners, and no play() is called.
ReplyWithoutLocatorChangesNothing ==
    [][ \A p \in PollSlots :
          (HandlesReply(p) /\ polls[p].data.audioUrl \in {Null, EmptyUrl})
          => UNCHANGED <<player, audio, lastPlayedUrl, isPlaying, rendered,
                         onEnded, played, replayed>> ]_vars

\* C38 witness: the reply that carries the text-only entry of the feed has
\* arrived and was not handled yet, the poll in the other slot has returned
\* at a failed fetch; nothing was ever played
TextOnlyReplyFetched ==
    \E p \in PollSlots :
        /\ polls[p].pc = "json"
        /\ polls[p].data.text = GeneratedText
        /\ polls[p].data.audioUrl = EmptyUrl
        /\ \E q \in PollSlots \ {p} : polls[q].failed
        /\ audio.status = "empty" /\ lastPlayedUrl = Null /\ played = {}
=============================================================================
